---- MODULE Spec2Model ----
(***************************************************************************)
(* Model of scripts/sync_chapters.py: the chapter synchroniser that        *)
(* renames the numbered root chapters to "NN - Title.md", mirrors them to  *)
(* content/docs/chapter-NN.md and regenerates the three index pages.       *)
(*                                                                         *)
(* A string is a sequence of one-character strings, so that strip,         *)
(* splitlines, the filename pattern, the number formatting and the         *)
(* sanitiser are computed character by character as the code does.  The    *)
(* fixed prose of the index pages is kept as multi-character tokens.       *)
(***************************************************************************)
EXTENDS Integers, Sequences, FiniteSets, TLC

VARIABLES
    root,        \* files of the project root: name -> text
    content,     \* files below content/: path -> text
    pc,          \* position of main()
    candidates,  \* _gather_chapters: list of (number, path)
    i,           \* loop index: the assigned number being processed / mirrored
    heading,     \* _normalize_root_file: heading of the chapter in progress
    chapters,    \* list of (number, heading, filename)
    ret,         \* return value of main(), -1 while none
    run,         \* how many times main() has been started
    log,         \* history: the file operations of the current run
    root0,       \* history: root at the start of the current run
    content0,    \* history: content at the start of the current run
    prev,        \* history: outcome of the previous run
    lines,       \* input of _find_first_h1 (heading specification)
    h1           \* result of _find_first_h1 (heading specification)

vars == <<root, content, pc, candidates, i, heading, chapters, ret, run,
          log, root0, content0, prev, lines, h1>>

pipelineVars == <<root, content, pc, candidates, i, heading, chapters, ret, run,
                  log, root0, content0, prev>>

----------------------------------------------------------------------------
(* Bounds of the model.                                                    *)

MaxFiles == 3
MaxRuns == 2
MaxLines == 4

----------------------------------------------------------------------------
(* Characters and Python's str helpers.                                    *)

SP == " "
NL == "\n"
TAB == "\t"
HASH == "#"
\* the backtick, written as a token (the lexer reserves the character itself)
BT == "BACKTICK"

Whitespace == {SP, TAB, NL}
Digits == <<"0", "1", "2", "3", "4", "5", "6", "7", "8", "9">>
DigitSet == {Digits[k] : k \in 1..10}

RECURSIVE LStrip(_)
LStrip(s) ==
    IF s # <<>> /\ Head(s) \in Whitespace THEN LStrip(Tail(s)) ELSE s

RECURSIVE RStrip(_)
RStrip(s) ==
    IF s # <<>> /\ s[Len(s)] \in Whitespace
    THEN RStrip(SubSeq(s, 1, Len(s) - 1))
    ELSE s

Strip(s) == LStrip(RStrip(s))

StartsWith(s, p) == Len(s) >= Len(p) /\ SubSeq(s, 1, Len(p)) = p

EndsWith(s, p) == Len(s) >= Len(p) /\ SubSeq(s, Len(s) - Len(p) + 1, Len(s)) = p

\* str.splitlines(): split at every newline; a final newline opens no line
RECURSIVE SplitFrom(_, _)
SplitFrom(text, cur) ==
    IF text = <<>> THEN (IF cur = <<>> THEN <<>> ELSE <<cur>>)
    ELSE IF Head(text) = NL THEN <<cur>> \o SplitFrom(Tail(text), <<>>)
    ELSE SplitFrom(Tail(text), Append(cur, Head(text)))

SplitLines(text) == SplitFrom(text, <<>>)

\* "\n".join(lines)
RECURSIVE JoinLines(_)
JoinLines(ls) ==
    IF ls = <<>> THEN <<>>
    ELSE IF Len(ls) = 1 THEN ls[1]
    ELSE ls[1] \o <<NL>> \o JoinLines(Tail(ls))

\* while lines and lines[0].strip() == "": lines.pop(0)
RECURSIVE DropLeadingBlank(_)
DropLeadingBlank(ls) ==
    IF ls # <<>> /\ Strip(Head(ls)) = <<>> THEN DropLeadingBlank(Tail(ls)) ELSE ls

\* f"{number:02d}"
RECURSIVE Decimal(_)
Decimal(n) ==
    IF n < 10 THEN <<Digits[n + 1]>> ELSE Append(Decimal(n \div 10), Digits[(n % 10) + 1])

Fmt02(n) == IF n < 10 THEN <<"0">> \o Decimal(n) ELSE Decimal(n)

DigitValue(c) == CHOOSE k \in 0..9 : Digits[k + 1] = c

\* int(match.group(1))
RECURSIVE ParseInt(_)
ParseInt(ds) ==
    IF ds = <<>> THEN 0
    ELSE 10 * ParseInt(SubSeq(ds, 1, Len(ds) - 1)) + DigitValue(ds[Len(ds)])

----------------------------------------------------------------------------
(* CHAPTER_PATTERN: digits, optional blanks, hyphen, optional blanks,     *)
(* a non-empty title, ".md"                                               *)

RECURSIVE DigitRun(_)
DigitRun(s) ==
    IF s # <<>> /\ Head(s) \in DigitSet THEN <<Head(s)>> \o DigitRun(Tail(s)) ELSE <<>>

MdSuffix == <<".", "m", "d">>

\* group 1 is the whole leading digit run; after optional whitespace comes the
\* hyphen; what follows the hyphen ends in ".md" with at least one character
\* left for (.+), which may be a blank given back by the second \s*
ChapterMatch(name) ==
    LET ds == DigitRun(name)
        rest == LStrip(SubSeq(name, Len(ds) + 1, Len(name)))
    IN  /\ ds # <<>>
        /\ rest # <<>>
        /\ Head(rest) = "-"
        /\ Len(Tail(rest)) >= 4
        /\ EndsWith(Tail(rest), MdSuffix)

ChapterKey(name) == ParseInt(DigitRun(name))

----------------------------------------------------------------------------
(* _find_first_h1                                                          *)

Fence == <<BT, BT, BT>>
H1Marker == <<HASH, SP>>

\* a scan that takes no notice of fences
RECURSIVE H1ScanNoFence(_, _, _)
H1ScanNoFence(ls, idx, in_code) ==
    IF idx >= Len(ls) THEN [found |-> FALSE, idx |-> -1, heading |-> <<>>]
    ELSE LET stripped == Strip(ls[idx + 1])
         IN  IF StartsWith(stripped, H1Marker)
             THEN [found |-> TRUE, idx |-> idx,
                   heading |-> Strip(SubSeq(stripped, 3, Len(stripped)))]
             ELSE H1ScanNoFence(ls, idx + 1, in_code)

RECURSIVE H1Scan(_, _, _)
H1Scan(ls, idx, in_code) ==
    IF idx >= Len(ls) THEN [found |-> FALSE, idx |-> -1, heading |-> <<>>]
    ELSE LET stripped == Strip(ls[idx + 1])
         IN  IF StartsWith(stripped, Fence) THEN H1Scan(ls, idx + 1, ~in_code)
             ELSE IF in_code THEN H1Scan(ls, idx + 1, in_code)
             ELSE IF StartsWith(stripped, H1Marker)
                  THEN [found |-> TRUE, idx |-> idx,
                        heading |-> Strip(SubSeq(stripped, 3, Len(stripped)))]
                  ELSE H1Scan(ls, idx + 1, in_code)

\* found = FALSE stands for "raise ValueError"; idx counts from 0 as in the code
FindFirstH1(ls) == H1Scan(ls, 0, FALSE)

----------------------------------------------------------------------------
(* _sanitize_filename                                                      *)

InvalidFilenameChars == {"\\", "/", ":", "*", "?", "\"", "<", ">", "|"}

RemoveInvalid(s) == SelectSeq(s, LAMBDA c : c \notin InvalidFilenameChars)

\* re.sub(r"\s+", " ", cleaned)
RECURSIVE CollapseSpaces(_)
CollapseSpaces(s) ==
    IF s = <<>> THEN <<>>
    ELSE IF Head(s) \in Whitespace THEN <<SP>> \o CollapseSpaces(LStrip(s))
    ELSE <<Head(s)>> \o CollapseSpaces(Tail(s))

SanitizeFilename(title) == CollapseSpaces(Strip(RemoveInvalid(title)))

\* a canonical name that always carries the number 1
ExpectedNameUnnumbered(number, title) ==
    Fmt02(1) \o <<SP, "-", SP>> \o SanitizeFilename(title) \o MdSuffix

ExpectedName(number, title) ==
    Fmt02(number) \o <<SP, "-", SP>> \o SanitizeFilename(title) \o MdSuffix

----------------------------------------------------------------------------
(* The text part of _normalize_root_file (lines 58-68)                     *)

\* a normalization that keeps the blank lines between heading and body
NormalizeTextKeepBlank(text) ==
    LET ls == DropLeadingBlank(SplitLines(text))
        r == FindFirstH1(ls)
        body_lines == SubSeq(ls, r.idx + 2, Len(ls))
        normalized_lines == <<H1Marker \o r.heading, <<>>>> \o body_lines
    IN  [found |-> r.found,
         heading |-> r.heading,
         text |-> IF r.found THEN RStrip(JoinLines(normalized_lines)) \o <<NL>>
                  ELSE text]

NormalizeText(text) ==
    LET ls == DropLeadingBlank(SplitLines(text))
        r == FindFirstH1(ls)
        body_lines == DropLeadingBlank(SubSeq(ls, r.idx + 2, Len(ls)))
        normalized_lines == <<H1Marker \o r.heading, <<>>>> \o body_lines
    IN  [found |-> r.found,
         heading |-> r.heading,
         text |-> IF r.found THEN RStrip(JoinLines(normalized_lines)) \o <<NL>>
                  ELSE text]

----------------------------------------------------------------------------
(* Files.  A directory is a function from names to texts.                  *)

EmptyDir == [n \in {} |-> <<>>]

Put(dir, name, text) ==
    [n \in DOMAIN dir \cup {name} |-> IF n = name THEN text ELSE dir[n]]

\* path.rename(new_path) onto a free name
Rename(dir, old, new) ==
    [n \in (DOMAIN dir \ {old}) \cup {new} |-> IF n = new THEN dir[old] ELSE dir[n]]

RootIndexName == <<"i", "n", "d", "e", "x", ".", "m", "d">>
DocsIndexPath == <<"docs", "_index.md">>
ContentIndexPath == <<"_index.md">>
DocsPath(number) == <<"docs", "chapter-">> \o Fmt02(number) \o <<".md">>

\* ROOT.glob("*.md")
Glob(dir) == {n \in DOMAIN dir : EndsWith(n, MdSuffix)}

\* the orders in which a directory listing may enumerate a set of names
Orderings(S) ==
    {s \in [1..Cardinality(S) -> S] : \A a, b \in DOMAIN s : a # b => s[a] # s[b]}

Op(kind, path, to) == [op |-> kind, path |-> path, to |-> to]

----------------------------------------------------------------------------
(* _gather_chapters, lines 83-90: the candidates and their stable sort     *)

\* candidates.append((number, file)) for the matching files, in listing order
Candidates(listing) ==
    LET matching == SelectSeq(listing, ChapterMatch)
    IN  [k \in 1..Len(matching) |-> <<ChapterKey(matching[k]), matching[k]>>]

\* an insertion that puts an item before the items of the same key
RECURSIVE InsertByKeyUnstable(_, _)
InsertByKeyUnstable(sorted, item) ==
    IF sorted = <<>> THEN <<item>>
    ELSE IF item[1] <= Head(sorted)[1] THEN <<item>> \o sorted
    ELSE <<Head(sorted)>> \o InsertByKeyUnstable(Tail(sorted), item)

\* an insertion that sorts by descending key
RECURSIVE InsertByKeyDescending(_, _)
InsertByKeyDescending(sorted, item) ==
    IF sorted = <<>> THEN <<item>>
    ELSE IF item[1] > Head(sorted)[1] THEN <<item>> \o sorted
    ELSE <<Head(sorted)>> \o InsertByKeyDescending(Tail(sorted), item)

\* insert after every item whose key is not larger: the sort is stable
RECURSIVE InsertByKey(_, _)
InsertByKey(sorted, item) ==
    IF sorted = <<>> THEN <<item>>
    ELSE IF item[1] < Head(sorted)[1] THEN <<item>> \o sorted
    ELSE <<Head(sorted)>> \o InsertByKey(Tail(sorted), item)

\* no sort: the candidates stay in listing order
SortByKeyOmitted(items) == items

RECURSIVE SortByKey(_)
SortByKey(items) ==
    IF items = <<>> THEN <<>>
    ELSE InsertByKey(SortByKey(SubSeq(items, 1, Len(items) - 1)), items[Len(items)])

----------------------------------------------------------------------------
(* _build_index_files                                                      *)

PercentCodes ==
    [c \in {SP, TAB, HASH, BT} |->
        CASE c = SP -> <<"%", "2", "0">>
          [] c = TAB -> <<"%", "0", "9">>
          [] c = HASH -> <<"%", "2", "3">>
          [] c = BT -> <<"%", "6", "0">>]

\* urllib.parse.quote: letters, digits and "_.-~/" pass, the rest is escaped
RECURSIVE Quote(_)
Quote(s) ==
    IF s = <<>> THEN <<>>
    ELSE (IF Head(s) \in DOMAIN PercentCodes THEN PercentCodes[Head(s)] ELSE <<Head(s)>>)
         \o Quote(Tail(s))

DocText(ls) == RStrip(JoinLines(ls)) \o <<NL>>

DocsIndexText(chs) ==
    DocText(<<<<"---">>, <<"title: \"Documentation\"">>, <<"bookCollapseSection: false">>,
              <<"weight: 1">>, <<"---">>, <<>>, <<"DOCS_INTRO">>, <<>>>>
            \o [k \in 1..Len(chs) |->
                  <<"- [">> \o chs[k][2] \o <<"](./chapter-">> \o Fmt02(chs[k][1]) \o <<")">>])

ContentIndexText(chs) ==
    DocText(<<<<"---">>, <<"title: \"">> \o chs[1][2] \o <<"\"">>, <<"---">>, <<>>,
              <<"ROOT_INTRO">>, <<>>, <<"## Chapter Guide">>, <<>>>>
            \o [k \in 1..Len(chs) |->
                  <<"- [">> \o chs[k][2] \o <<"](./docs/chapter-">> \o Fmt02(chs[k][1]) \o <<")">>]
            \o <<<<>>, <<"ROOT_CLOSING">>>>)

RootIndexText(chs) ==
    DocText(<<<<"---">>, <<"layout: home">>, <<"---">>, <<>>,
              <<HASH, SP>> \o chs[1][2], <<>>, <<"ROOT_OVERVIEW">>, <<>>,
              <<"## Chapter Guide">>, <<>>>>
            \o [k \in 1..Len(chs) |->
                  <<"- [">> \o chs[k][2] \o <<"](./">> \o Quote(chs[k][3]) \o <<")">>])

----------------------------------------------------------------------------
(* The directories main() may be started on.                               *)

Name0Z == <<"0", "-", "Z", ".", "m", "d">>
Name1X == <<"1", "-", "X", ".", "m", "d">>
Name01A == <<"0", "1", SP, "-", SP, "A", ".", "m", "d">>
Name02B == <<"0", "2", SP, "-", SP, "B", ".", "m", "d">>
Name3Y == <<"3", SP, "-", "Y", ".", "m", "d">>

NamePool == {Name0Z, Name1X, Name01A, Name02B, Name3Y}

\* "# A\n": already canonical, no body
TextA == <<HASH, SP, "A", NL>>
\* "\n```\n# A\n```\n # B? \n\nx \n\n": the heading "B?" follows a fence that
\* hides "# A"; blank lines and trailing blanks are to be normalized away
TextB == <<NL, BT, BT, BT, NL, HASH, SP, "A", NL, BT, BT, BT, NL,
           SP, HASH, SP, "B", "?", SP, NL, NL, "x", SP, NL, NL>>
\* "```\n# A\n": the fence never closes, no heading
TextNoH1 == <<BT, BT, BT, NL, HASH, SP, "A", NL>>

TextPool == {TextA, TextB, TextNoH1}

\* the chapter files of the root: up to MaxFiles names, each with some text
InitialChapters ==
    UNION {[S -> TextPool] : S \in {T \in SUBSET NamePool : Cardinality(T) <= MaxFiles}}

\* pages left over from some earlier book: content/docs/chapter-01.md,
\* content/docs/_index.md and the root index.md
StaleContent == Put(Put(EmptyDir, DocsPath(1), TextB), DocsIndexPath, TextA)
StaleRootIndex == TextA

NoH1 == [done |-> FALSE, r |-> [found |-> FALSE, idx |-> -1, heading |-> <<>>]]
NoRun == [ret |-> -1, pc |-> "none", root |-> EmptyDir, content |-> EmptyDir, log |-> <<>>]

Init ==
    /\ \E files \in InitialChapters, stale \in BOOLEAN :
          /\ root = IF stale THEN Put(files, RootIndexName, StaleRootIndex) ELSE files
          /\ content = IF stale THEN StaleContent ELSE EmptyDir
    /\ pc = "glob"
    /\ candidates = <<>>
    /\ i = 1
    /\ heading = <<>>
    /\ chapters = <<>>
    /\ ret = -1
    /\ run = 1
    /\ log = <<>>
    /\ root0 = root
    /\ content0 = content
    /\ prev = NoRun
    /\ lines = <<>>
    /\ h1 = NoH1

----------------------------------------------------------------------------
(* _normalize_root_file as two steps on the root directory                 *)

\* lines 58-70: read, normalize, write back only when the text changed
ContentStep(dir, path) ==
    LET text == dir[path]
        n == NormalizeText(text)
        changed == n.found /\ n.text # text
    IN  [found |-> n.found,
         heading |-> n.heading,
         changed |-> changed,
         root |-> IF changed THEN [dir EXCEPT ![path] = n.text] ELSE dir]

\* a rename that does not look whether the target exists
RenameStepUnchecked(dir, path, number, title) ==
    LET expected_name == ExpectedName(number, title)
    IN  [collision |-> FALSE,
         renamed |-> path # expected_name,
         name |-> expected_name,
         root |-> IF path # expected_name THEN Rename(dir, path, expected_name) ELSE dir]

\* lines 71-79: rename unless the name is right; FileExistsError when the
\* target exists
RenameStep(dir, path, number, title) ==
    LET expected_name == ExpectedName(number, title)
        differs == path # expected_name
        collision == differs /\ expected_name \in DOMAIN dir /\ expected_name # path
    IN  [collision |-> collision,
         renamed |-> differs /\ ~collision,
         name |-> expected_name,
         root |-> IF differs /\ ~collision THEN Rename(dir, path, expected_name) ELSE dir]

\* a mirror written under the number formatted without padding
DocsCopyUnpadded(dir, docs, number, filename) ==
    Put(docs, <<"docs", "chapter-">> \o Decimal(number) \o <<".md">>, dir[filename])

\* _write_docs_copy
DocsCopy(dir, docs, number, filename) == Put(docs, DocsPath(number), dir[filename])

\* _gather_chapters, lines 91-95, from the k-th candidate on: how the loop ends
\* and the root it leaves
RECURSIVE NormalizeFrom(_, _, _)
NormalizeFrom(dir, cands, k) ==
    IF k > Len(cands) THEN [status |-> "gathered", root |-> dir]
    ELSE LET c == ContentStep(dir, cands[k][2])
         IN  IF ~c.found THEN [status |-> "ValueError", root |-> c.root]
             ELSE LET r == RenameStep(c.root, cands[k][2], k, c.heading)
                  IN  IF r.collision THEN [status |-> "FileExistsError", root |-> r.root]
                      ELSE NormalizeFrom(r.root, cands, k + 1)

\* _gather_chapters on a directory that is listed in the given order
GatherOutcome(dir, listing) ==
    LET o == NormalizeFrom(dir, SortByKey(Candidates(listing)), 1)
    IN  [status |-> o.status, names |-> {n \in DOMAIN o.root : ChapterMatch(n)}]

----------------------------------------------------------------------------
(* main() and the functions it calls                                       *)

\* _gather_chapters, lines 83-89: list the directory, keep the matching names
GlobCandidates ==
    /\ pc = "glob"
    /\ \E listing \in Orderings(Glob(root)) : candidates' = Candidates(listing)
    /\ pc' = "sort"
    /\ UNCHANGED <<root, content, i, heading, chapters, ret, run, log, root0,
                   content0, prev, lines, h1>>

\* _gather_chapters, line 90, and the entry into the loop of line 92
SortCandidates ==
    /\ pc = "sort"
    /\ candidates' = SortByKey(candidates)
    /\ i' = 1
    /\ pc' = IF candidates = <<>> THEN "mirror" ELSE "normalize"
    /\ UNCHANGED <<root, content, heading, chapters, ret, run, log,
                   root0, content0, prev, lines, h1>>

\* _normalize_root_file, lines 58-70, for the chapter with assigned number i;
\* the ValueError of _find_first_h1 is caught nowhere and ends the process
NormalizeContent ==
    /\ pc = "normalize"
    /\ LET path == candidates[i][2]
           r == ContentStep(root, path)
       IN  /\ root' = r.root
           /\ heading' = r.heading
           /\ pc' = IF r.found THEN "rename" ELSE "crashed"
           /\ log' = log \o <<Op("read", path, <<>>)>>
                         \o (IF r.changed THEN <<Op("write", path, <<>>)>> ELSE <<>>)
                         \o (IF r.found THEN <<>> ELSE <<Op("ValueError", path, <<>>)>>)
    /\ UNCHANGED <<content, candidates, i, chapters, ret, run, root0,
                   content0, prev, lines, h1>>

\* _normalize_root_file, lines 71-79, and the loop step of lines 92-95
NormalizeRename ==
    /\ pc = "rename"
    /\ LET path == candidates[i][2]
           r == RenameStep(root, path, i, heading)
           last == i = Len(candidates)
       IN  /\ root' = r.root
           /\ IF r.collision
              THEN /\ pc' = "except"
                   /\ log' = Append(log, Op("FileExistsError", path, r.name))
                   /\ UNCHANGED <<chapters, i>>
              ELSE /\ log' = IF r.renamed THEN Append(log, Op("rename", path, r.name)) ELSE log
                   /\ chapters' = Append(chapters, <<i, heading, r.name>>)
                   /\ i' = IF last THEN 1 ELSE i + 1
                   /\ pc' = IF last THEN "mirror" ELSE "normalize"
    /\ UNCHANGED <<content, candidates, heading, ret, run, root0,
                   content0, prev, lines, h1>>

\* a handler that reports the error and falls through to the mirror and the
\* index pages of the chapters gathered so far
HandleFileExistsFallThrough ==
    /\ pc = "except"
    /\ pc' = "mirror"
    /\ i' = 1
    /\ UNCHANGED <<root, content, candidates, heading, chapters, ret, run,
                   log, root0, content0, prev, lines, h1>>

\* a handler that goes on with the next chapter
HandleFileExistsSkip ==
    /\ pc = "except"
    /\ chapters' = Append(chapters, <<i, heading, candidates[i][2]>>)
    /\ i' = IF i = Len(candidates) THEN 1 ELSE i + 1
    /\ pc' = IF i = Len(candidates) THEN "mirror" ELSE "normalize"
    /\ UNCHANGED <<root, content, candidates, heading, ret, run,
                   log, root0, content0, prev, lines, h1>>

\* main, lines 165-167
HandleFileExists ==
    /\ pc = "except"
    /\ ret' = 1
    /\ pc' = "exit"
    /\ UNCHANGED <<root, content, candidates, i, heading, chapters, run,
                   log, root0, content0, prev, lines, h1>>

\* main, lines 168-169: _write_docs_copy for the i-th chapter
WriteDocsCopy ==
    /\ pc = "mirror"
    /\ i <= Len(chapters)
    /\ LET number == chapters[i][1]
           filename == chapters[i][3]
       IN  /\ content' = DocsCopy(root, content, number, filename)
           /\ log' = log \o <<Op("read", filename, <<>>), Op("mirror", DocsPath(number), <<>>)>>
    /\ i' = i + 1
    /\ UNCHANGED <<root, pc, candidates, heading, chapters, ret, run,
                   root0, content0, prev, lines, h1>>

\* main, lines 170-171: _build_index_files, then return 0
BuildIndexFiles ==
    /\ pc = "mirror"
    /\ i > Len(chapters)
    /\ IF chapters = <<>>
       THEN UNCHANGED <<root, content, log>>
       ELSE /\ content' = Put(Put(content, DocsIndexPath, DocsIndexText(chapters)),
                              ContentIndexPath, ContentIndexText(chapters))
            /\ root' = Put(root, RootIndexName, RootIndexText(chapters))
            /\ log' = log \o <<Op("index", DocsIndexPath, <<>>),
                               Op("index", ContentIndexPath, <<>>),
                               Op("index", RootIndexName, <<>>)>>
    /\ ret' = 0
    /\ pc' = "exit"
    /\ UNCHANGED <<candidates, i, heading, chapters, run, root0,
                   content0, prev, lines, h1>>

\* the script is started again on the directory the last run left
Rerun ==
    /\ pc \in {"exit", "crashed"}
    /\ run < MaxRuns
    /\ run' = run + 1
    /\ prev' = [ret |-> ret, pc |-> pc, root |-> root, content |-> content, log |-> log]
    /\ root0' = root
    /\ content0' = content
    /\ pc' = "glob"
    /\ candidates' = <<>>
    /\ i' = 1
    /\ heading' = <<>>
    /\ chapters' = <<>>
    /\ ret' = -1
    /\ log' = <<>>
    /\ UNCHANGED <<root, content, lines, h1>>

Next ==
    \/ GlobCandidates
    \/ SortCandidates
    \/ NormalizeContent
    \/ NormalizeRename
    \/ HandleFileExists
    \/ WriteDocsCopy
    \/ BuildIndexFiles
    \/ Rerun

Spec == Init /\ [][Next]_vars

----------------------------------------------------------------------------
(* _find_first_h1 on its own: every short sequence of lines                *)

\* "", "# A", "  # B ", "#  ", "#A", "```", " ```x", "x"
LinePool ==
    {<<>>, <<HASH, SP, "A">>, <<SP, SP, HASH, SP, "B", SP>>, <<HASH, SP, SP>>,
     <<HASH, "A">>, <<BT, BT, BT>>, <<SP, BT, BT, BT, "x">>, <<"x">>}

LineSeqs == UNION {[1..n -> LinePool] : n \in 0..MaxLines}

InitH1 ==
    /\ lines \in LineSeqs
    /\ h1 = NoH1
    /\ root = EmptyDir
    /\ content = EmptyDir
    /\ pc = "h1"
    /\ candidates = <<>>
    /\ i = 1
    /\ heading = <<>>
    /\ chapters = <<>>
    /\ ret = -1
    /\ run = 1
    /\ log = <<>>
    /\ root0 = EmptyDir
    /\ content0 = EmptyDir
    /\ prev = NoRun

CallFindFirstH1 ==
    /\ pc = "h1"
    /\ ~h1.done
    /\ h1' = [done |-> TRUE, r |-> FindFirstH1(lines)]
    /\ UNCHANGED <<lines, pipelineVars>>

NextH1 == CallFindFirstH1

SpecH1 == InitH1 /\ [][NextH1]_vars

----------------------------------------------------------------------------
(* C7: fence-aware heading detection                                       *)

FenceLinesBefore(ls, k, IsFence(_)) == Cardinality({j \in 1..(k - 1) : IsFence(ls[j])})

\* the 1-based positions a heading may be taken from, for a given reading of
\* "heading line" and "fence line"
HeadingPositions(ls, IsHeading(_), IsFence(_)) ==
    {k \in 1..Len(ls) : IsHeading(ls[k]) /\ FenceLinesBefore(ls, k, IsFence) % 2 = 0}

Least(S) == CHOOSE k \in S : \A m \in S : k <= m

FindsFirstOf(S) ==
    IF S = {} THEN ~h1.r.found ELSE h1.r.found /\ h1.r.idx + 1 = Least(S)

RawHeading(line) == StartsWith(line, H1Marker)
RawFence(line) == StartsWith(line, Fence)
StrippedHeading(line) == StartsWith(Strip(line), H1Marker)
StrippedFence(line) == StartsWith(Strip(line), Fence)

\* C7 as stated: _find_first_h1 returns the first line that begins with "# "
\* and has an even number of lines beginning with the fence marker before it,
\* and fails when there is none.
C7_HeadingOfRawLines ==
    h1.done => FindsFirstOf(HeadingPositions(lines, RawHeading, RawFence))

\* C7 amended: the same with every line taken without its leading and trailing
\* whitespace: the first line whose stripped form begins with "# " and that has
\* an even number of lines whose stripped form begins with the fence marker
\* before it is returned; when there is none the call fails.
C7_HeadingOfStrippedLines ==
    h1.done => FindsFirstOf(HeadingPositions(lines, StrippedHeading, StrippedFence))

\* a heading-like line inside a fence was passed over and a later heading found
C7_Witness ==
    /\ h1.done
    /\ h1.r.found
    /\ \E k \in 1..h1.r.idx : StrippedHeading(lines[k])

----------------------------------------------------------------------------
(* Vocabulary of the pipeline claims                                       *)

ChapterFiles(dir) == {n \in DOMAIN dir : ChapterMatch(n)}

Position(seq, x) == CHOOSE k \in 1..Len(seq) : seq[k] = x

HasOp(kind) == \E k \in 1..Len(log) : log[k].op = kind

Gathered == (pc = "mirror") \/ (pc = "exit" /\ ret = 0)

\* the name under which the j-th candidate is found now
CurrentName(j) == IF j <= Len(chapters) THEN chapters[j][3] ELSE candidates[j][2]

\* heading line, then nothing, or an empty line and a body that starts with a
\* non-blank line; one newline at the end and no other whitespace before it
IsCanonicalText(text, title) ==
    LET ls == SplitLines(text)
    IN  /\ text # <<>>
        /\ text[Len(text)] = NL
        /\ Len(text) >= 2
        /\ text[Len(text) - 1] \notin Whitespace
        /\ ls[1] = <<HASH, SP>> \o title
        /\ title # <<>>
        /\ Head(title) \notin Whitespace
        /\ \/ Len(ls) = 1
           \/ Len(ls) >= 3 /\ ls[2] = <<>> /\ Strip(ls[3]) # <<>>

----------------------------------------------------------------------------
(* C2: number assignment                                                   *)

C2_Numbered ==
    pc \notin {"glob", "sort"} =>
        LET N == Cardinality(ChapterFiles(root0))
        IN  /\ Len(candidates) = N
            /\ {candidates[k][2] : k \in 1..Len(candidates)} = ChapterFiles(root0)
            /\ \A k \in 1..Len(candidates) :
                  candidates[k][1] = ParseInt(DigitRun(candidates[k][2]))
            /\ \A a, b \in 1..Len(candidates) :
                  candidates[a][1] < candidates[b][1] => a < b
            /\ \A k \in 1..Len(chapters) :
                  /\ chapters[k][1] = k
                  /\ StartsWith(chapters[k][3], Fmt02(k))
            /\ Gathered => Len(chapters) = N

\* the sort step: candidates is the list in listing order, candidates' the
\* sorted one
C2_SortStep ==
    pc = "sort" =>
        /\ Len(candidates') = Len(candidates)
        /\ {candidates'[k] : k \in 1..Len(candidates')}
             = {candidates[k] : k \in 1..Len(candidates)}
        /\ \A a, b \in 1..Len(candidates') :
              /\ candidates'[a][1] < candidates'[b][1] => a < b
              /\ (/\ candidates'[a][1] = candidates'[b][1]
                  /\ Position(candidates, candidates'[a]) < Position(candidates, candidates'[b]))
                 => a < b

\* C2: the sorted candidates are exactly the matching files of the root, each
\* once, so their positions 1..N are the assigned numbers; a strictly smaller
\* prefix gives a smaller number, equal prefixes keep the order of the
\* directory listing, and the k-th chapter returned has number k.
C2_NumberAssignment == []C2_Numbered /\ [][C2_SortStep]_vars

\* three files numbered 1, 2, 3, two of them with the same prefix, the last
\* with a prefix that is not its number
C2_Witness ==
    /\ pc = "mirror"
    /\ Len(chapters) = 3
    /\ candidates[1][1] = candidates[2][1]
    /\ candidates[3][1] # 3

----------------------------------------------------------------------------
(* C6: what _gather_chapters guarantees when it returns                    *)

\* C6: when _gather_chapters has returned for N discovered files, the list is
\* (1, heading_1, name_1) .. (N, heading_N, name_N), name_k is
\* "{k:02d} - {sanitized heading_k}.md", the root holds a file of that name
\* whose text is canonical with heading_k, and the root files that match the
\* chapter pattern are exactly these N names.
C6_PostNormalization ==
    Gathered =>
        /\ Len(chapters) = Len(candidates)
        /\ \A k \in 1..Len(chapters) :
              /\ chapters[k][1] = k
              /\ chapters[k][3] = Fmt02(k) \o <<SP, "-", SP>>
                                    \o SanitizeFilename(chapters[k][2]) \o MdSuffix
              /\ chapters[k][3] \in DOMAIN root
              /\ IsCanonicalText(root[chapters[k][3]], chapters[k][2])
        /\ ChapterFiles(root) = {chapters[k][3] : k \in 1..Len(chapters)}
        /\ Cardinality(ChapterFiles(root)) = Len(chapters)

\* two chapters, at least one rewritten and one renamed
C6_Witness ==
    /\ pc = "mirror"
    /\ Len(chapters) >= 2
    /\ HasOp("write")
    /\ HasOp("rename")

----------------------------------------------------------------------------
(* C3: the mirror                                                          *)

\* C3: when main() has returned 0, content/docs/chapter-NN of every chapter k
\* holds exactly the text of the root file that bears chapter k's final name,
\* and that text is the canonical one.
C3_MirrorFidelity ==
    (pc = "exit" /\ ret = 0) =>
        \A k \in 1..Len(chapters) :
            /\ DocsPath(k) \in DOMAIN content
            /\ chapters[k][3] \in DOMAIN root
            /\ content[DocsPath(k)] = root[chapters[k][3]]
            /\ IsCanonicalText(content[DocsPath(k)], chapters[k][2])

\* a successful run that rewrote and renamed chapters before mirroring two
C3_Witness ==
    /\ pc = "exit"
    /\ ret = 0
    /\ Len(chapters) >= 2
    /\ HasOp("write")
    /\ HasOp("rename")
    /\ HasOp("mirror")

----------------------------------------------------------------------------
(* C9: chapters are never lost                                             *)

C9_Kept ==
    /\ Cardinality(ChapterFiles(root)) = Cardinality(ChapterFiles(root0))
    /\ pc # "glob" =>
          /\ \A j \in 1..Len(candidates) :
                /\ CurrentName(j) \in DOMAIN root
                /\ \/ root[CurrentName(j)] = root0[candidates[j][2]]
                   \/ \E k \in 1..Len(log) :
                         log[k].op = "write" /\ log[k].path = candidates[j][2]
          /\ \A j, k \in 1..Len(candidates) : j # k => CurrentName(j) # CurrentName(k)
    /\ pc = "except" => Len(chapters) = i - 1 /\ candidates[i][2] \in DOMAIN root

\* a step removes a root name only by moving its text to a name that was free,
\* and changes the text under a name only by the rewrite of the chapter in
\* progress or by writing index.md
C9_Step ==
    /\ \A n \in DOMAIN root :
          n \notin DOMAIN root' =>
              \E m \in DOMAIN root' \ DOMAIN root :
                  /\ root'[m] = root[n]
                  /\ DOMAIN root' = (DOMAIN root \ {n}) \cup {m}
    /\ \A n \in DOMAIN root \cap DOMAIN root' :
          root'[n] # root[n] =>
              \/ pc = "normalize" /\ n = candidates[i][2]
              \/ n = RootIndexName

\* C9: in every state of a run every discovered chapter is one root file, under
\* its original or its canonical name, the names are distinct and their number
\* is constant; no step overwrites or deletes a root file; after a failed
\* rename the chapter is still at its original name.
C9_ChaptersNeverLost == []C9_Kept /\ [][C9_Step]_vars

\* a rename failed after an earlier chapter had been renamed
C9_Witness ==
    /\ pc = "except"
    /\ i >= 2
    /\ HasOp("rename")

----------------------------------------------------------------------------
(* C4, C8: the fatal errors                                                *)

TargetOccupied ==
    /\ pc = "rename"
    /\ ExpectedName(i, heading) # candidates[i][2]
    /\ ExpectedName(i, heading) \in DOMAIN root

IndexPagesUntouched ==
    /\ content = content0
    /\ (RootIndexName \in DOMAIN root) = (RootIndexName \in DOMAIN root0)
    /\ RootIndexName \in DOMAIN root => root[RootIndexName] = root0[RootIndexName]

C4_AfterCollision ==
    HasOp("FileExistsError") =>
        /\ pc \in {"except", "exit"}
        /\ pc = "exit" => ret = 1
        /\ IndexPagesUntouched

\* C4: when the canonical target of a rename is occupied by another root file
\* the next step raises the collision, main() then returns 1, and from the
\* collision on nothing below content/ and no root index.md has been created
\* or changed by the run.
C4_CollisionOutcome ==
    /\ []C4_AfterCollision
    /\ [][(TargetOccupied => pc' = "except") /\ (pc = "except" => ret' = 1)]_vars

\* a collision in a directory that already had content/ and index.md
C4_Witness ==
    /\ pc = "exit"
    /\ ret = 1
    /\ HasOp("FileExistsError")
    /\ content0 # EmptyDir
    /\ RootIndexName \in DOMAIN root0

\* C8: once chapter i has failed with a missing heading or a collision, the
\* chapters after i are at their original names with their original texts and
\* were never read, no mirror and no index page has been written, the other
\* root files are as they were, and what has changed is the texts and names of
\* chapters 1..i-1 and, for a collision only, the text of chapter i.
C8_ImmediateAbort ==
    (HasOp("FileExistsError") \/ HasOp("ValueError")) =>
        LET N == Len(candidates)
            pathOf(j) == candidates[j][2]
        IN  /\ pc \in {"crashed", "except", "exit"}
            /\ pc = "exit" => ret = 1
            /\ Len(chapters) = i - 1
            /\ \A j \in (i + 1)..N :
                  /\ pathOf(j) \in DOMAIN root
                  /\ root[pathOf(j)] = root0[pathOf(j)]
            /\ \A k \in 1..Len(log) :
                  /\ log[k].op \notin {"mirror", "index"}
                  /\ \E j \in 1..i : log[k].path = pathOf(j)
            /\ IndexPagesUntouched
            /\ \A n \in DOMAIN root0 \ ChapterFiles(root0) :
                  n \in DOMAIN root /\ root[n] = root0[n]
            /\ DOMAIN root = (DOMAIN root0 \ ChapterFiles(root0))
                               \cup {chapters[j][3] : j \in 1..(i - 1)}
                               \cup {pathOf(j) : j \in i..N}
            /\ HasOp("ValueError") => root[pathOf(i)] = root0[pathOf(i)]
            /\ HasOp("FileExistsError") =>
                  \/ root[pathOf(i)] = root0[pathOf(i)]
                  \/ IsCanonicalText(root[pathOf(i)], heading)

\* the second of three chapters has no heading; the first was rewritten
C8_Witness ==
    /\ pc = "crashed"
    /\ i = 2
    /\ Len(candidates) = 3
    /\ HasOp("write")
    /\ HasOp("ValueError")

----------------------------------------------------------------------------
(* C5: which file a rename can collide with                                *)

\* C5 as stated: the canonical target of chapter i is never the current name
\* of another discovered chapter, renamed already or not.
C5_NoCollisionBetweenChapters ==
    pc = "rename" =>
        \A j \in 1..Len(candidates) :
            j # i => CurrentName(j) # ExpectedName(i, heading)

\* C5 amended: the canonical target of chapter i is never the name of a
\* chapter j < i, which has been renamed already; when the target is occupied
\* it is by the file of a discovered chapter j > i that has not been renamed
\* yet and bears that name.
C5_CollisionOnlyWithLaterChapter ==
    pc = "rename" =>
        LET target == ExpectedName(i, heading)
        IN  /\ \A j \in 1..(i - 1) : chapters[j][3] # target
            /\ (target # candidates[i][2] /\ target \in DOMAIN root) =>
                  \E j \in (i + 1)..Len(candidates) : candidates[j][2] = target

\* the second chapter collides with a later one
C5_Witness ==
    /\ pc = "except"
    /\ i >= 2
    /\ \E j \in (i + 1)..Len(candidates) : candidates[j][2] = ExpectedName(i, heading)

----------------------------------------------------------------------------
(* C1: idempotence                                                         *)

\* C1: throughout a run that follows a run which returned 0, the root and
\* content/ are as the first run left them, nothing is rewritten or renamed,
\* no error is raised, and the run returns 0.
C1_Idempotence ==
    (run >= 2 /\ prev.ret = 0) =>
        /\ root = prev.root
        /\ content = prev.content
        /\ pc \notin {"crashed", "except"}
        /\ ~HasOp("rename")
        /\ ~HasOp("write")
        /\ pc = "exit" => ret = 0

\* the second run has ended after a first run that rewrote and renamed
C1_Witness ==
    /\ run = 2
    /\ pc = "exit"
    /\ prev.ret = 0
    /\ Len(chapters) >= 2
    /\ \E k \in 1..Len(prev.log) : prev.log[k].op = "rename"
    /\ \E k \in 1..Len(prev.log) : prev.log[k].op = "write"

----------------------------------------------------------------------------
(* C10: the outcome and the order of the directory listing                 *)

ActualOutcome ==
    [status |-> IF pc = "crashed" THEN "ValueError"
                ELSE IF ret = 1 THEN "FileExistsError" ELSE "gathered",
     names |-> ChapterFiles(root)]

SameOutcomeForEveryListing ==
    pc \in {"exit", "crashed"} =>
        \A listing \in Orderings(Glob(root0)) :
            GatherOutcome(root0, listing) = ActualOutcome

DistinctPrefixes(dir) ==
    \A a, b \in ChapterFiles(dir) : a # b => ChapterKey(a) # ChapterKey(b)

\* C10 as stated: whatever the order of the listing, a run from the same root
\* ends the same way with the same set of root chapter filenames.
C10_Deterministic == SameOutcomeForEveryListing

\* C10 amended: the same for the roots whose chapter files have pairwise
\* distinct numeric prefixes.
C10_DeterministicForDistinctPrefixes ==
    DistinctPrefixes(root0) => SameOutcomeForEveryListing

\* three chapters with distinct prefixes, with a gap, normalized with success
C10_Witness ==
    /\ pc = "exit"
    /\ ret = 0
    /\ Len(chapters) = 3
    /\ DistinctPrefixes(root0)
    /\ candidates[3][1] # 3

====
